---- MODULE Spec2Model ----
(***************************************************************************)
(* Model of the command-execution orchestrator of vscode-as-mcp-server:    *)
(* packages/extension/src/tools/execute_command.ts                         *)
(*   executeCommandToolHandler -> ExecuteCommandTool.execute               *)
(* Texts are sequences of tokens (template fragments and characters), an   *)
(* optional value is a sequence of length 0 or 1.                          *)
(***************************************************************************)
EXTENDS Integers, Sequences, FiniteSets

\* ------------------------------------------------------------ bounds ----
\* Bound on the number of output lines of one command.
MaxLines == 2
\* Bound on how often a process raises the no_shell_integration event.
MaxNoShellEvents == 2

\* ---------------------------------------------------------- constants ---
\* Default of the timeout parameter and the value the result text omits.
DefaultTimeout == 300000
\* A timeout a client passes explicitly.
OtherTimeout == 1000

Reqs == {1, 2}

\* Output lines a command can print (sequences of characters).
LineSet == {<<"a">>, <<"b">>, <<" ">>}

\* Outputs of the commands of InitPool and InitFair.
PoolScriptSet == {<<>>, << <<"a">> >>}

\* Answers of the confirmation dialog: the two labels and free text.
ResponseSet == {"Approve", "Deny", "too risky"}

\* Working directories a request can override with ("" is an empty override).
CwdSet == {<<>>, <<"">>, <<"/w">>, <<"/b">>}
PoolCwdSet == {<<>>, <<"/w">>, <<"/b">>}

RootSet == {<<>>, <<"/w">>}

BoundedSeq(S, n) == UNION {[1..k -> S] : k \in 0..n}

\* z.infer<typeof executeCommandSchema>: the request after validation.
executeCommandSchema ==
  [command : {"cmd"}, customCwd : CwdSet, modifySomething : BOOLEAN,
   background : BOOLEAN, timeout : {DefaultTimeout, OtherTimeout}]

\* The requests of InitPool: the first of either mode, the second a
\* background request that arrives while the first is handled.
PoolSchema ==
  [command : {"cmd"}, customCwd : PoolCwdSet, modifySomething : BOOLEAN,
   background : BOOLEAN, timeout : {DefaultTimeout}]

PoolBackgroundSchema == {p \in PoolSchema : p.background}

\* ------------------------------------------------------ text helpers ----
Digit(d) == <<"0", "1", "2", "3", "4", "5", "6", "7", "8", "9">>[d + 1]

\* Template-literal conversion of a non-negative number to decimal text.
RECURSIVE ToString(_)
ToString(n) == IF n < 10 THEN <<Digit(n)>>
               ELSE ToString(n \div 10) \o <<Digit(n % 10)>>

IsSpace(c) == c \in {" ", "\n", "\t"}

RECURSIVE TrimStart(_)
TrimStart(s) == IF s # <<>> /\ IsSpace(Head(s)) THEN TrimStart(Tail(s)) ELSE s

RECURSIVE TrimEnd(_)
TrimEnd(s) == IF s # <<>> /\ IsSpace(s[Len(s)])
              THEN TrimEnd(SubSeq(s, 1, Len(s) - 1)) ELSE s

\* String.prototype.trim
Trim(s) == TrimEnd(TrimStart(s))

\* a || b on optional strings: undefined and "" are falsy.
Falsy(opt) == opt = <<>> \/ opt = <<"">>
OrElse(opt, dflt) == IF Falsy(opt) THEN dflt ELSE opt[1]

\* ------------------------------------------------- result templates ----
\* Mutant: the global override is ignored.
shouldConfirm_IgnoresOverride(modifySomething, confirmNonDestructiveCommands) ==
  modifySomething

\* execute_command.ts:53
shouldConfirm(modifySomething, confirmNonDestructiveCommands) ==
  modifySomething \/ confirmNonDestructiveCommands

\* Mutant: only the plain "Deny" stops the execution.
Denied_OnlyDenyLabel(userResponse) == userResponse = "Deny"

\* execute_command.ts:62 (the guard of the denial return)
Denied(userResponse) == userResponse # "Approve"

\* Mutant: the feedback is left out of the denial text.
DeniedText_WithoutFeedback(userResponse) ==
  <<"Command execution was denied by the user. ">>

\* execute_command.ts:65
DeniedText(userResponse) ==
  <<"Command execution was denied by the user. ">>
    \o (IF userResponse # "Deny" THEN <<"Feedback: ", userResponse>> ELSE <<>>)

\* Mutant: ?? in place of ||, only a missing override falls back.
EffectiveCwd_Nullish(customCwd, cwd) == IF customCwd = <<>> THEN cwd ELSE customCwd[1]

\* Mutant: the override is ignored.
EffectiveCwd_IgnoresOverride(customCwd, cwd) == cwd

\* execute_command.ts:73, the argument of getOrCreateTerminal
EffectiveCwd(customCwd, cwd) == OrElse(customCwd, cwd)

\* Mutant: the listener puts the new line in front of the buffer.
LineListener_Prepends(result, line) == line \o <<"\n">> \o result

\* Mutant: the listener assigns instead of appending.
LineListener_Overwrites(result, line) == line \o <<"\n">>

\* execute_command.ts:78-80, the "line" listener
LineListener(result, line) == result \o line \o <<"\n">>

\* execute_command.ts:96-99
BackgroundText(terminalId) ==
  <<"Command started in background mode and is running in the terminal ", "(id: ">>
    \o ToString(terminalId)
    \o <<"). ", "You can check the output later using the get_terminal_output tool with this terminal id.">>

\* execute_command.ts:125-127
ExecutedText(terminalId, result) ==
  <<"Command executed in terminal ", "(id: ">> \o ToString(terminalId) \o <<").">>
    \o (IF result # <<>> THEN <<"\nOutput:\n">> \o result ELSE <<>>)

\* Mutant: the timeout is mentioned whatever its value.
TimeoutMessage_Always(timeout) == <<" (timeout: ">> \o ToString(timeout) \o <<"ms)">>

\* execute_command.ts:130
TimeoutMessage(timeout) ==
  IF timeout # 300000 THEN <<" (timeout: ">> \o ToString(timeout) \o <<"ms)">> ELSE <<>>

\* execute_command.ts:131-137
StillRunningText(terminalId, timeout, result) ==
  <<"Command is still running in terminal ", "(id: ">> \o ToString(terminalId) \o <<")">>
    \o TimeoutMessage(timeout) \o <<".">>
    \o (IF result # <<>> THEN <<"\nHere's the output so far:\n">> \o result ELSE <<>>)
    \o <<"\n\nYou can check for more output later using the get_terminal_output tool with this terminal id.">>

\* Mutant: the two branches of the result are exchanged.
WaitedText_Exchanged(completed, terminalId, timeout, result) ==
  IF completed THEN StillRunningText(terminalId, timeout, result)
  ELSE ExecutedText(terminalId, result)

\* Mutant: the completed flag is not consulted.
WaitedText_IgnoresCompleted(completed, terminalId, timeout, result) ==
  ExecutedText(terminalId, result)

\* execute_command.ts:124-138, the result of a waited execution
WaitedText(completed, terminalId, timeout, result) ==
  IF completed THEN ExecutedText(terminalId, result)
  ELSE StillRunningText(terminalId, timeout, result)

\* Mutant: the background check is missing.
ReturnsInBackground_Never(background) == FALSE

\* execute_command.ts:92, the guard of the background return
ReturnsInBackground(background) == background

\* Mutant: the denial return reports the rejection in the tuple.
UserRejected_OnDenial(path) == path = "Rejected"

\* execute_command.ts:64, 95, 125, 132: the first element of the tuple
\* execute returns on each path, the literal false every time.
UserRejected(path) == FALSE

\* execute_command.ts:156 and 165: the handler binds the first element of
\* the tuple to `success` and answers isError: !success.
HandlerIsError(success) == ~success

\* Mutant: the workspace check is missing.
NoWorkspace_Unchecked(root) == FALSE

\* execute_command.ts:148
NoWorkspace(root) == Falsy(root)

\* ----------------------------------------------- terminal registry -----
\* TerminalManager.getOrCreateTerminal: the live session bound to the
\* directory if there is one, else a new one.
LiveFor(terms, dir) == {i \in 1..Len(terms) : terms[i].live /\ terms[i].cwd = dir}

Min(S) == CHOOSE x \in S : \A y \in S : x <= y

getOrCreateTerminalId(terms, dir) ==
  IF LiveFor(terms, dir) # {} THEN Min(LiveFor(terms, dir)) ELSE Len(terms) + 1

getOrCreateTerminal(terms, dir) ==
  IF LiveFor(terms, dir) # {} THEN terms
  ELSE Append(terms, [cwd |-> dir, live |-> TRUE])

\* ------------------------------------------------------------- state ----
VARIABLES
  workspaceRoot,                  \* vscode.workspace.workspaceFolders?.[0]?.uri.fsPath
  confirmNonDestructiveCommands,  \* mcpServer.confirmNonDestructiveCommands
  terminals,                      \* the session pool: id -> [cwd, live]
  params,                         \* r -> <<>> or <<request>>
  script,                         \* r -> the lines the command prints
  pc,                             \* r -> position of the handler
  cwd,                            \* r -> this.cwd of the request's tool
  asked,                          \* r -> number of confirmation prompts requested
  userResponse,                   \* r -> <<>> or <<answer>>
  terminalId,                     \* r -> terminalInfo.id (0: none acquired)
  shown,                          \* r -> terminal.show() was called
  proc,                           \* r -> state of the command process
  result,                         \* r -> the output buffer
  completed,                      \* r -> the completed flag
  warnings,                       \* r -> showWarningMessage calls
  timer,                          \* r -> state of timeoutPromise
  ret,                            \* r -> <<>> or <<tuple returned by execute>>
  response,                       \* r -> <<>> or <<response of the handler>>
  outcome,                        \* r -> the return path taken
  completedAtTimeout              \* r -> <<>> or <<completed when the timer fired>>

vars == <<workspaceRoot, confirmNonDestructiveCommands, terminals, params, script,
          pc, cwd, asked, userResponse, terminalId, shown, proc, result,
          completed, warnings, timer, ret, response, outcome, completedAtTimeout>>

globals == <<workspaceRoot, confirmNonDestructiveCommands, params, script>>

NoProc == [state |-> "none", emitted |-> 0, resolved |-> FALSE, noShell |-> 0]

InitLocal ==
  /\ terminals = <<>>
  /\ pc = [r \in Reqs |-> "idle"]
  /\ cwd = [r \in Reqs |-> <<>>]
  /\ asked = [r \in Reqs |-> 0]
  /\ userResponse = [r \in Reqs |-> <<>>]
  /\ terminalId = [r \in Reqs |-> 0]
  /\ shown = [r \in Reqs |-> FALSE]
  /\ proc = [r \in Reqs |-> NoProc]
  /\ result = [r \in Reqs |-> <<>>]
  /\ completed = [r \in Reqs |-> FALSE]
  /\ warnings = [r \in Reqs |-> 0]
  /\ timer = [r \in Reqs |-> "none"]
  /\ ret = [r \in Reqs |-> <<>>]
  /\ response = [r \in Reqs |-> <<>>]
  /\ outcome = [r \in Reqs |-> "none"]
  /\ completedAtTimeout = [r \in Reqs |-> <<>>]

\* One request arrives at the server.
Init ==
  /\ workspaceRoot \in RootSet
  /\ confirmNonDestructiveCommands \in BOOLEAN
  /\ \E p \in executeCommandSchema : params = [r \in Reqs |-> IF r = 1 THEN <<p>> ELSE <<>>]
  /\ \E s \in BoundedSeq(LineSet, MaxLines) : script = [r \in Reqs |-> IF r = 1 THEN s ELSE <<>>]
  /\ InitLocal

\* One request arrives, any request of the schema, for a command that
\* prints at most one line.
InitFair ==
  /\ workspaceRoot \in RootSet
  /\ confirmNonDestructiveCommands \in BOOLEAN
  /\ \E p \in executeCommandSchema : params = [r \in Reqs |-> IF r = 1 THEN <<p>> ELSE <<>>]
  /\ \E s \in PoolScriptSet : script = [r \in Reqs |-> IF r = 1 THEN s ELSE <<>>]
  /\ InitLocal

\* Two requests arrive at the server and are handled concurrently.
InitPool ==
  /\ workspaceRoot \in RootSet
  /\ confirmNonDestructiveCommands \in BOOLEAN
  /\ \E p \in PoolSchema, q \in PoolBackgroundSchema :
        params = [r \in Reqs |-> IF r = 1 THEN <<p>> ELSE <<q>>]
  /\ \E s \in PoolScriptSet : script = [r \in Reqs |-> IF r = 1 THEN s ELSE <<>>]
  /\ InitLocal

\* ----------------------------------------------------------- actions ---
\* execute returns [UserRejected, text]; the handler, awaiting it, answers
\* with isError: !success (execute_command.ts:156-167).
Return(r, text, path) ==
  /\ ret' = [ret EXCEPT ![r] = <<[userRejected |-> UserRejected(path), text |-> text]>>]
  /\ response' = [response EXCEPT ![r] =
                    <<[isError |-> HandlerIsError(UserRejected(path)), text |-> text]>>]
  /\ outcome' = [outcome EXCEPT ![r] = path]
  /\ pc' = [pc EXCEPT ![r] = "done"]

\* Mutant: the process is stopped when execute returns.
ProcessAfterReturn_Kills(p) == [p EXCEPT !.state = "killed"]

\* The process a return leaves behind: no return path of execute calls
\* anything on the process or the terminal (execute_command.ts:92-138).
ProcessAfterReturn(p) == p

\* Mutant: the answer is not awaited.
AfterAsk_NotAwaited == "acquire"

\* execute_command.ts:59, await this.ask(command): execute is suspended
\* until the prompt is answered.
AfterAsk == "asking"

\* executeCommandToolHandler up to the first await of execute
\* (execute_command.ts:146-162 and 41-59).
Handler(r) ==
  /\ pc[r] = "idle"
  /\ params[r] # <<>>
  /\ IF NoWorkspace(workspaceRoot)
     THEN /\ response' = [response EXCEPT ![r] =
                 <<[isError |-> TRUE, text |-> <<"No workspace folder is open">>]>>]
          /\ outcome' = [outcome EXCEPT ![r] = "NoWorkspace"]
          /\ pc' = [pc EXCEPT ![r] = "done"]
          /\ UNCHANGED <<cwd, asked>>
     ELSE /\ cwd' = [cwd EXCEPT ![r] = workspaceRoot]
          /\ IF shouldConfirm(params[r][1].modifySomething, confirmNonDestructiveCommands)
             THEN /\ asked' = [asked EXCEPT ![r] = @ + 1]
                  /\ pc' = [pc EXCEPT ![r] = AfterAsk]
             ELSE /\ pc' = [pc EXCEPT ![r] = "acquire"]
                  /\ UNCHANGED asked
          /\ UNCHANGED <<response, outcome>>
  /\ UNCHANGED <<globals, terminals, userResponse, terminalId, shown, proc, result,
                 completed, warnings, timer, ret, completedAtTimeout>>

\* The human answers the prompt: ask resolves (execute_command.ts:59-67).
Respond(r, answer) ==
  /\ pc[r] = "asking"
  /\ userResponse' = [userResponse EXCEPT ![r] = <<answer>>]
  /\ IF Denied(answer)
     THEN Return(r, DeniedText(answer), "Rejected")
     ELSE /\ pc' = [pc EXCEPT ![r] = "acquire"]
          /\ UNCHANGED <<ret, response, outcome>>
  /\ UNCHANGED <<globals, terminals, cwd, asked, terminalId, shown, proc, result,
                 completed, warnings, timer, completedAtTimeout>>

\* getOrCreateTerminal, show, runCommand, the listeners and the background
\* return or the start of the race (execute_command.ts:73-111).
RunCommand(r) ==
  /\ pc[r] = "acquire"
  /\ LET dir == EffectiveCwd(params[r][1].customCwd, cwd[r][1])
         id  == getOrCreateTerminalId(terminals, dir)
     IN /\ terminals' = getOrCreateTerminal(terminals, dir)
        /\ terminalId' = [terminalId EXCEPT ![r] = id]
        /\ shown' = [shown EXCEPT ![r] = TRUE]
        /\ result' = [result EXCEPT ![r] = <<>>]
        /\ completed' = [completed EXCEPT ![r] = FALSE]
        /\ IF ReturnsInBackground(params[r][1].background)
           THEN /\ Return(r, BackgroundText(id), "BackgroundReturned")
                /\ proc' = [proc EXCEPT ![r] =
                              ProcessAfterReturn([NoProc EXCEPT !.state = "running"])]
                /\ UNCHANGED timer
           ELSE /\ timer' = [timer EXCEPT ![r] = "armed"]
                /\ proc' = [proc EXCEPT ![r].state = "running"]
                /\ pc' = [pc EXCEPT ![r] = "racing"]
                /\ UNCHANGED <<ret, response, outcome>>
  /\ UNCHANGED <<globals, cwd, asked, userResponse, warnings, completedAtTimeout>>

\* The process emits its next line; the "line" listener appends it.
ProcLine(r) ==
  /\ proc[r].state = "running" /\ ~proc[r].resolved
  /\ proc[r].emitted < Len(script[r])
  /\ proc' = [proc EXCEPT ![r].emitted = @ + 1]
  /\ result' = [result EXCEPT ![r] = LineListener(@, script[r][proc[r].emitted + 1])]
  /\ UNCHANGED <<globals, terminals, pc, cwd, asked, userResponse, terminalId, shown,
                 completed, warnings, timer, ret, response, outcome, completedAtTimeout>>

\* The process emits "completed" after its last line; the listener sets
\* the flag (execute_command.ts:82-85).
ProcCompleted(r) ==
  /\ proc[r].state = "running" /\ ~proc[r].resolved
  /\ proc[r].emitted = Len(script[r])
  /\ proc' = [proc EXCEPT ![r].state = "completed"]
  /\ completed' = [completed EXCEPT ![r] = TRUE]
  /\ UNCHANGED <<globals, terminals, pc, cwd, asked, userResponse, terminalId, shown,
                 result, warnings, timer, ret, response, outcome, completedAtTimeout>>

\* Mutant: the listener is registered with on instead of once.
NoShellListener_EveryEvent(earlier, shownWarnings) == shownWarnings + 1

\* execute_command.ts:87-89, process.once("no_shell_integration", ...):
\* the listener runs for the first event only.
NoShellListener(earlier, shownWarnings) ==
  IF earlier = 0 THEN shownWarnings + 1 ELSE shownWarnings

\* The process emits "no_shell_integration"; the once-listener warns
\* (execute_command.ts:87-89).
ProcNoShellIntegration(r) ==
  /\ proc[r].state \in {"running", "completed"} /\ ~proc[r].resolved
  /\ proc[r].noShell < MaxNoShellEvents
  /\ proc' = [proc EXCEPT ![r].noShell = @ + 1]
  /\ warnings' = [warnings EXCEPT ![r] = NoShellListener(proc[r].noShell, @)]
  /\ UNCHANGED <<globals, terminals, pc, cwd, asked, userResponse, terminalId, shown,
                 result, completed, timer, ret, response, outcome, completedAtTimeout>>

\* The underlying execution finishes and the handle resolves, whether or
\* not "completed" was emitted.
ProcResolve(r) ==
  /\ proc[r].state \in {"running", "completed"} /\ ~proc[r].resolved
  /\ proc' = [proc EXCEPT ![r].resolved = TRUE]
  /\ UNCHANGED <<globals, terminals, pc, cwd, asked, userResponse, terminalId, shown,
                 result, completed, warnings, timer, ret, response, outcome,
                 completedAtTimeout>>

\* The setTimeout callback resolves timeoutPromise (execute_command.ts:104-108).
TimerFire(r) ==
  /\ timer[r] = "armed"
  /\ timer' = [timer EXCEPT ![r] = "fired"]
  /\ completedAtTimeout' = [completedAtTimeout EXCEPT ![r] = <<completed[r]>>]
  /\ UNCHANGED <<globals, terminals, pc, cwd, asked, userResponse, terminalId, shown,
                 proc, result, completed, warnings, ret, response, outcome>>

\* Mutant: only the process handle is awaited.
RaceSettled_ProcessOnly(processResolved, timeoutResolved) == processResolved

\* execute_command.ts:111, Promise.race([process, timeoutPromise])
RaceSettled(processResolved, timeoutResolved) == processResolved \/ timeoutResolved

\* Promise.race settles and delay(50) starts (execute_command.ts:111-118).
RaceSettle(r) ==
  /\ pc[r] = "racing"
  /\ RaceSettled(proc[r].resolved, timer[r] = "fired")
  /\ pc' = [pc EXCEPT ![r] = "grace"]
  /\ UNCHANGED <<globals, terminals, cwd, asked, userResponse, terminalId, shown,
                 proc, result, completed, warnings, timer, ret, response, outcome,
                 completedAtTimeout>>

\* delay(50) ends: trim, assemble the result, return (execute_command.ts:120-138).
DelayEnd(r) ==
  /\ pc[r] = "grace"
  /\ result' = [result EXCEPT ![r] = Trim(@)]
  /\ Return(r, WaitedText(completed[r], terminalId[r], params[r][1].timeout, Trim(result[r])),
            IF completed[r] THEN "Completed" ELSE "TimedOut")
  /\ proc' = [proc EXCEPT ![r] = ProcessAfterReturn(@)]
  /\ UNCHANGED <<globals, terminals, cwd, asked, userResponse, terminalId, shown,
                 completed, warnings, timer, completedAtTimeout>>

\* The user closes a terminal: its session is no longer live.
CloseTerminal(i) ==
  /\ i \in 1..Len(terminals)
  /\ terminals[i].live
  /\ terminals' = [terminals EXCEPT ![i].live = FALSE]
  /\ UNCHANGED <<globals, pc, cwd, asked, userResponse, terminalId, shown, proc,
                 result, completed, warnings, timer, ret, response, outcome,
                 completedAtTimeout>>

Next ==
  \/ \E r \in Reqs : Handler(r)
  \/ \E r \in Reqs, answer \in ResponseSet : Respond(r, answer)
  \/ \E r \in Reqs : RunCommand(r)
  \/ \E r \in Reqs : ProcLine(r)
  \/ \E r \in Reqs : ProcCompleted(r)
  \/ \E r \in Reqs : ProcNoShellIntegration(r)
  \/ \E r \in Reqs : ProcResolve(r)
  \/ \E r \in Reqs : TimerFire(r)
  \/ \E r \in Reqs : RaceSettle(r)
  \/ \E r \in Reqs : DelayEnd(r)
  \/ \E i \in 1..Cardinality(Reqs) : CloseTerminal(i)

Spec == Init /\ [][Next]_vars

SpecPool == InitPool /\ [][Next]_vars

\* The event loop runs every continuation that is ready and every timer
\* that is due: the steps of execute after the confirmation gate are
\* taken once enabled. Nothing is assumed of the human or of the process.
Fairness ==
  \A r \in Reqs : /\ WF_vars(RunCommand(r))
                  /\ WF_vars(TimerFire(r))
                  /\ WF_vars(RaceSettle(r))
                  /\ WF_vars(DelayEnd(r))

SpecFair == InitFair /\ [][Next]_vars /\ Fairness


\* ------------------------------------------------------------ claims ---
Contains(text, sub) ==
  \E i \in 0..(Len(text) - Len(sub)) : SubSeq(text, i + 1, i + Len(sub)) = sub

\* "(id: <n>)" as it appears in a result text.
IdMention(id) == <<"(id: ">> \o ToString(id)

StatesStillRunning(text) == text # <<>> /\ Head(text) = "Command is still running in terminal "
StatesExecuted(text) == text # <<>> /\ Head(text) = "Command executed in terminal "
StatesDenial(text) == text # <<>> /\ Head(text) = "Command execution was denied by the user. "

\* The requests for which execute was invoked (a workspace root existed).
Executing(r) == pc[r] # "idle" /\ outcome[r] # "NoWorkspace"

NoSessionWork(r) ==
  /\ terminalId[r] = 0
  /\ ~shown[r]
  /\ proc[r].state = "none"
  /\ timer[r] = "none"

\* C1: the response is an error response only when no workspace root is
\* resolvable; a denied, timed-out, background or completed request is
\* answered with isError = false.
C1_IsErrorOnlyWithoutRoot ==
  \A r \in Reqs : response[r] # <<>> =>
    (response[r][1].isError <=> outcome[r] = "NoWorkspace")

\* C2: for every execute invocation the confirmation prompt is requested
\* (once) if and only if modifySomething is true or the global
\* confirmNonDestructiveCommands setting is true.
C2_ConfirmIff ==
  \A r \in Reqs : Executing(r) =>
    /\ asked[r] <= 1
    /\ (asked[r] = 1) <=> (params[r][1].modifySomething \/ confirmNonDestructiveCommands)
    /\ (~params[r][1].modifySomething /\ ~confirmNonDestructiveCommands) => asked[r] = 0
    /\ params[r][1].modifySomething => asked[r] = 1

C2_Witness ==
  \E r \in Reqs : /\ pc[r] = "asking"
                  /\ ~params[r][1].modifySomething
                  /\ confirmNonDestructiveCommands

\* C3: when confirmation is required, a session is acquired or shown and
\* a process started only after the answer "Approve"; while the answer is
\* pending and after any other answer there is no session and no process,
\* whatever the background flag.
C3_OnlyAfterApprove ==
  /\ \A r \in Reqs : asked[r] > 0 =>
       (NoSessionWork(r) \/ userResponse[r] = <<"Approve">>)
  /\ Len(terminals) <= Cardinality({r \in Reqs : terminalId[r] # 0})

C3_Witness ==
  \E r \in Reqs : /\ asked[r] > 0
                  /\ userResponse[r] = <<"Approve">>
                  /\ params[r][1].background
                  /\ proc[r].state = "running"
                  /\ terminalId[r] # 0

\* C4 as stated: every execute invocation with background = true returns
\* without a timer or an awaited handle and its text contains the session
\* identifier.
C4_BackgroundAlwaysNamesSession ==
  \A r \in Reqs : (ret[r] # <<>> /\ params[r][1].background) =>
    /\ timer[r] = "none"
    /\ terminalId[r] # 0
    /\ Contains(ret[r][1].text, IdMention(terminalId[r]))

\* C4 amended: a request with background = true never creates the timer
\* and never awaits the process handle; it returns either the denial or,
\* when it passes the confirmation gate, the background result, whose
\* text contains the session identifier.
C4_BackgroundReturnsBeforeRace ==
  \A r \in Reqs : (params[r] # <<>> /\ params[r][1].background) =>
    /\ timer[r] = "none"
    /\ pc[r] \notin {"racing", "grace"}
    /\ completedAtTimeout[r] = <<>>
    /\ ret[r] # <<>> => outcome[r] \in {"Rejected", "BackgroundReturned"}
    /\ (ret[r] # <<>> /\ outcome[r] # "Rejected") =>
         /\ terminalId[r] # 0
         /\ Contains(ret[r][1].text, IdMention(terminalId[r]))
         /\ ~StatesDenial(ret[r][1].text)

C4_Witness ==
  \E r \in Reqs : /\ outcome[r] = "BackgroundReturned"
                  /\ params[r][1].background
                  /\ proc[r].state = "running"
                  /\ Contains(ret[r][1].text, IdMention(terminalId[r]))

\* C5 as stated: a waited execution whose "completed" event had not
\* occurred when the timeout elapsed reports that the command is still
\* running.
C5_TimeoutMeansStillRunning ==
  \A r \in Reqs : (outcome[r] \in {"Completed", "TimedOut"} /\ completedAtTimeout[r] = <<FALSE>>) =>
    StatesStillRunning(ret[r][1].text)

\* C5 amended: a waited execution reports that the command is still
\* running (and not that it executed) exactly when the "completed" event
\* has not occurred by the end of the grace delay that follows the race.
C5_NotCompletedByDelayEnd ==
  [][\A r \in Reqs : (pc[r] = "grace" /\ pc'[r] = "done") =>
        /\ ~completed[r] => (StatesStillRunning(ret'[r][1].text) /\ ~StatesExecuted(ret'[r][1].text))
        /\ completed[r] => StatesExecuted(ret'[r][1].text)]_vars

C5_Witness ==
  \E r \in Reqs : /\ outcome[r] = "TimedOut"
                  /\ completedAtTimeout[r] = <<FALSE>>
                  /\ ~completed[r]
                  /\ StatesStillRunning(ret[r][1].text)

\* L1..Ln joined by newlines.
RECURSIVE Join(_)
Join(lines) ==
  IF lines = <<>> THEN <<>>
  ELSE IF Len(lines) = 1 THEN lines[1]
  ELSE lines[1] \o <<"\n">> \o Join(Tail(lines))

Emitted(r) == SubSeq(script[r], 1, proc[r].emitted)

\* The "completed" event occurred before the timer fired.
CompletedWithinTimeout(r) == completed[r] /\ completedAtTimeout[r] # <<FALSE>>

\* C6: when the process emitted the lines L1..Ln and then completed
\* within the timeout, the returned text is the "executed" text followed
\* by L1..Ln joined by newlines and trimmed, once, in emission order (and
\* by no output section when that trimmed text is empty).
C6_OutputInOrderOnce ==
  \A r \in Reqs : (outcome[r] \in {"Completed", "TimedOut"} /\ CompletedWithinTimeout(r)) =>
    LET out == Trim(Join(Emitted(r)))
    IN /\ Emitted(r) = script[r]
       /\ ret[r][1].text =
            <<"Command executed in terminal ", "(id: ">> \o ToString(terminalId[r]) \o <<").">>
              \o (IF out # <<>> THEN <<"\nOutput:\n">> \o out ELSE <<>>)

C6_Witness ==
  \E r \in Reqs : /\ outcome[r] = "Completed"
                  /\ CompletedWithinTimeout(r)
                  /\ Emitted(r) = << <<"a">>, <<"b">> >>
                  /\ Contains(ret[r][1].text, <<"a", "\n", "b">>)

\* C7: when the human answers anything other than "Approve", execute has
\* returned with a text that states the denial, with no session work
\* done; free-text feedback is contained verbatim after "Feedback: ", and
\* the plain "Deny" yields the denial sentence alone.
C7_DenialText ==
  \A r \in Reqs : (userResponse[r] # <<>> /\ userResponse[r][1] # "Approve") =>
    /\ pc[r] = "done"
    /\ ret[r] # <<>>
    /\ NoSessionWork(r)
    /\ StatesDenial(ret[r][1].text)
    /\ userResponse[r][1] # "Deny" =>
         ret[r][1].text = <<"Command execution was denied by the user. ", "Feedback: ",
                            userResponse[r][1]>>
    /\ userResponse[r][1] = "Deny" =>
         ret[r][1].text = <<"Command execution was denied by the user. ">>

C7_Witness ==
  \E r \in Reqs : /\ userResponse[r] = <<"too risky">>
                  /\ ret[r] # <<>>
                  /\ Contains(ret[r][1].text, <<"too risky">>)

\* The effective working directory of a request: the override if one is
\* given, else the workspace root the tool was constructed with.
RequestedCwd(r) ==
  IF params[r][1].customCwd # <<>> THEN params[r][1].customCwd[1] ELSE cwd[r][1]

C9_NoRootAborts ==
  \A r \in Reqs : (Falsy(workspaceRoot) /\ pc[r] # "idle") =>
    /\ pc[r] = "done"
    /\ response[r] # <<>> /\ response[r][1].isError
    /\ asked[r] = 0
    /\ NoSessionWork(r)
    /\ ret[r] = <<>>
    /\ terminals = <<>>

C9_Witness ==
  \E r \in Reqs : /\ Falsy(workspaceRoot)
                  /\ response[r] # <<>>
                  /\ response[r][1].text = <<"No workspace folder is open">>

\* C10: returning from execute never stops the process: the step that
\* returns in background mode leaves the process just started running,
\* and the step that returns after the race leaves the process as it was.
C10_ReturnLeavesProcess ==
  [][\A r \in Reqs :
        /\ (pc[r] = "grace" /\ pc'[r] = "done") => proc'[r] = proc[r]
        /\ (pc[r] = "acquire" /\ pc'[r] = "done") =>
             proc'[r] = [NoProc EXCEPT !.state = "running"]]_vars

\* The process emitted a line and "completed" after execute had returned
\* because the timer fired.
C10_Witness ==
  \E r \in Reqs : /\ outcome[r] = "TimedOut"
                  /\ completedAtTimeout[r] = <<FALSE>>
                  /\ completed[r]
                  /\ result[r] # <<>> /\ result[r][Len(result[r])] = "\n"

\* C11: on every return path of execute (denial, background, completed,
\* still running) the rejection boolean of the tuple is false, and the
\* denial shows in the text alone: the text states the denial exactly on
\* the denial path.
C11_RejectionFlagAlwaysFalse ==
  \A r \in Reqs : ret[r] # <<>> =>
    /\ outcome[r] \in {"Rejected", "BackgroundReturned", "Completed", "TimedOut"}
    /\ ret[r][1].userRejected = FALSE
    /\ StatesDenial(ret[r][1].text) <=> outcome[r] = "Rejected"
    /\ StatesDenial(ret[r][1].text) <=>
         (userResponse[r] # <<>> /\ userResponse[r][1] # "Approve")

C11_Witness ==
  \E r \in Reqs : /\ userResponse[r] = <<"Deny">>
                  /\ ret[r] # <<>>
                  /\ ~ret[r][1].userRejected

\* C12: every non-background execution that is past the confirmation
\* gate (confirmation not required, or approved) eventually returns a
\* result, whatever the process does.
C12_WaitedExecutionReturns ==
  \A r \in Reqs :
    (pc[r] = "acquire" /\ ~params[r][1].background) ~> (pc[r] = "done" /\ ret[r] # <<>>)

\* The execution returned although the process neither completed nor
\* resolved its handle.
C12_Witness ==
  \E r \in Reqs : /\ outcome[r] = "TimedOut"
                  /\ proc[r].state = "running"
                  /\ ~proc[r].resolved
                  /\ ~completed[r]
                  /\ timer[r] = "fired"

\* C13: a waited execution states "Command executed" exactly when the
\* "completed" event has been delivered by the end of the grace delay and
\* "Command is still running" otherwise; so a handle that resolved with
\* no "completed" event yields "still running", and the flag read is the
\* one of that moment, whatever it was when the timer fired.
C13_ExecutedIffCompletedAtDelayEnd ==
  [][\A r \in Reqs : (pc[r] = "grace" /\ pc'[r] = "done") =>
        LET text == ret'[r][1].text
        IN /\ StatesExecuted(text) <=> completed[r]
           /\ StatesStillRunning(text) <=> ~completed[r]
           /\ (proc[r].resolved /\ proc[r].state = "running") => StatesStillRunning(text)
           /\ (completedAtTimeout[r] = <<FALSE>> /\ completed[r]) => StatesExecuted(text)
           /\ outcome'[r] = (IF completed[r] THEN "Completed" ELSE "TimedOut")]_vars

\* The timer fired before "completed", which arrived before the grace
\* delay ended: the result says executed.
C13_Witness ==
  \E r \in Reqs : /\ outcome[r] = "Completed"
                  /\ completedAtTimeout[r] = <<FALSE>>
                  /\ StatesExecuted(ret[r][1].text)

\* The output a result text carries: what follows its output header, up
\* to the closing advice of a "still running" text.
OutputHeaders == {"\nOutput:\n", "\nHere's the output so far:\n"}
ClosingAdvice ==
  "\n\nYou can check for more output later using the get_terminal_output tool with this terminal id."

OutputOf(text) ==
  LET at == {i \in 1..Len(text) : text[i] \in OutputHeaders}
  IN IF at = {} THEN <<>>
     ELSE LET i == CHOOSE j \in at : TRUE
              rest == SubSeq(text, i + 1, Len(text))
          IN IF rest # <<>> /\ rest[Len(rest)] = ClosingAdvice
             THEN SubSeq(rest, 1, Len(rest) - 1) ELSE rest

\* C14: the output in a non-background result is the lines delivered
\* from the start of the process to the end of the grace delay, joined in
\* delivery order and trimmed, a prefix of what the process prints; no
\* later step changes the tuple or the response already returned.
C14_OutputIsDeliveredPrefix ==
  [][\A r \in Reqs :
        /\ (pc[r] = "grace" /\ pc'[r] = "done") =>
             /\ OutputOf(ret'[r][1].text) = Trim(Join(Emitted(r)))
             /\ Cardinality({i \in 1..Len(ret'[r][1].text) :
                               ret'[r][1].text[i] \in OutputHeaders})
                  = (IF Trim(Join(Emitted(r))) = <<>> THEN 0 ELSE 1)
             /\ proc[r].emitted <= Len(script[r])
        /\ pc[r] = "done" => (ret'[r] = ret[r] /\ response'[r] = response[r])]_vars

\* A second line arrived after execute had returned the first.
C14_Witness ==
  \E r \in Reqs : /\ outcome[r] = "TimedOut"
                  /\ OutputOf(ret[r][1].text) = <<"a">>
                  /\ Emitted(r) = << <<"a">>, <<"b">> >>

\* C15: while a requested confirmation is unanswered, execute stays
\* suspended at the prompt: it has created no timer, done no session
\* work and returned nothing, and it leaves the prompt only by the
\* human's answer, never by the request's timeout.
C15_UnansweredPromptBlocks ==
  [][\A r \in Reqs : (asked[r] > 0 /\ userResponse[r] = <<>>) =>
        /\ pc[r] = "asking"
        /\ NoSessionWork(r)
        /\ ret[r] = <<>> /\ response[r] = <<>>
        /\ completedAtTimeout[r] = <<>>
        /\ pc'[r] # "asking" => userResponse'[r] # <<>>]_vars

C15_Witness ==
  \E r \in Reqs : /\ pc[r] = "asking"
                  /\ userResponse[r] = <<>>
                  /\ params[r][1].timeout = OtherTimeout
                  /\ ~params[r][1].background

\* The states of section 4.4 as positions of the model.
State(r) ==
  CASE pc[r] = "idle" -> "Idle"
    [] pc[r] = "asking" -> "ConfirmationPending"
    [] pc[r] \in {"acquire", "racing", "grace"} -> "Running"
    [] OTHER -> outcome[r]

Terminal == {"Rejected", "BackgroundReturned", "Completed", "TimedOut"}

\* C16: an execute invocation moves Idle, ConfirmationPending (only when
\* a confirmation is requested, left for Running only by "Approve"),
\* Running, and ends in one of Rejected, BackgroundReturned, Completed,
\* TimedOut, which it never leaves; it produces its one result on
\* entering that state, and Rejected is entered from ConfirmationPending
\* only.
C16_StateOrder ==
  [][\A r \in Reqs :
        LET from == State(r)
            to   == State(r)'
        IN /\ from # to =>
                \/ from = "Idle" /\ to = "ConfirmationPending" /\ asked'[r] = 1
                \/ from = "Idle" /\ to = "Running" /\ asked'[r] = 0
                \/ from = "Idle" /\ to = "NoWorkspace" /\ ret'[r] = <<>>
                \/ from = "ConfirmationPending" /\ to = "Running"
                     /\ userResponse'[r] = <<"Approve">>
                \/ from = "ConfirmationPending" /\ to = "Rejected"
                \/ from = "Running" /\ to \in {"BackgroundReturned", "Completed", "TimedOut"}
           /\ (ret[r] = <<>> /\ ret'[r] # <<>>) <=> (from \notin Terminal /\ to \in Terminal)
           /\ ret[r] # <<>> => (ret'[r] = ret[r] /\ response'[r] = response[r])
           /\ to \in Terminal => Len(ret'[r]) = 1]_vars

C16_Witness ==
  \E r \in Reqs : /\ State(r) = "Completed"
                  /\ asked[r] = 1
                  /\ userResponse[r] = <<"Approve">>
                  /\ Len(ret[r]) = 1

\* C17: a "no_shell_integration" event changes nothing but the count of
\* events and the warning, which is shown for the first event and never
\* again: the completed flag, the output buffer, the timer, the position
\* of execute and its result are as they were.
C17_NoShellOnlyWarnsOnce ==
  [][\A r \in Reqs :
        /\ warnings'[r] <= 1
        /\ proc'[r].noShell # proc[r].noShell =>
             /\ proc' = [proc EXCEPT ![r].noShell = @ + 1]
             /\ warnings'[r] = 1
             /\ UNCHANGED <<globals, terminals, pc, cwd, asked, userResponse, terminalId,
                            shown, result, completed, timer, ret, response, outcome,
                            completedAtTimeout>>
        /\ warnings'[r] # warnings[r] => proc'[r].noShell = 1]_vars

\* The event was raised twice and one warning was shown.
C17_Witness ==
  \E r \in Reqs : /\ proc[r].noShell = 2
                  /\ warnings[r] = 1
                  /\ outcome[r] = "Completed"

\* C18 as stated: the session is bound to the override whenever the
\* request has one, the empty string included, and to the workspace root
\* only when it has none.
C18_OverrideWheneverPresent ==
  \A r \in Reqs : terminalId[r] # 0 =>
    terminals[terminalId[r]].cwd = RequestedCwd(r)

\* C18 amended: the session is bound to the override whenever the
\* request has a non-empty one, and to the workspace root when it has
\* none or an empty one.
C18_OverrideWhenNonEmpty ==
  \A r \in Reqs : terminalId[r] # 0 =>
    LET override == params[r][1].customCwd
        bound    == terminals[terminalId[r]].cwd
    IN /\ (override # <<>> /\ override[1] # "") => bound = override[1]
       /\ (override = <<>> \/ override = <<"">>) => bound = workspaceRoot[1]

C18_Witness ==
  \E r \in Reqs : /\ terminalId[r] # 0
                  /\ params[r][1].customCwd = <<"">>
                  /\ terminals[terminalId[r]].cwd = "/w"

MentionsTimeout(text) == \E i \in 1..Len(text) : text[i] = " (timeout: "

\* C19: a "still running" text mentions the timeout, with its value,
\* exactly when the request's timeout is not the default 300000; no
\* other text of execute mentions it.
C19_TimeoutMentionedIffNotDefault ==
  \A r \in Reqs : ret[r] # <<>> =>
    LET text == ret[r][1].text
        timeout == params[r][1].timeout
    IN /\ StatesStillRunning(text) =>
            /\ MentionsTimeout(text) <=> timeout # DefaultTimeout
            /\ MentionsTimeout(text) =>
                 Contains(text, <<" (timeout: ">> \o ToString(timeout) \o <<"ms)", ".">>)
       /\ ~StatesStillRunning(text) => ~MentionsTimeout(text)
       /\ outcome[r] = "TimedOut" <=> StatesStillRunning(text)

C19_Witness ==
  \E r \in Reqs : /\ outcome[r] = "TimedOut"
                  /\ params[r][1].timeout = OtherTimeout
                  /\ Contains(ret[r][1].text, <<" (timeout: ", "1", "0", "0", "0", "ms)">>)

====
